---- MODULE Spec2Model ----
(***************************************************************************)
(* Model of the Infisical MCP server (src/src/flowmcp-server.ts).  The     *)
(* file holds two programs: the FlowMCP HTTP/WebSocket server (lines       *)
(* 1-771) and the stdio MCP server (lines 772-1442).  `variant` says which *)
(* of the two programs runs.  Every request is a small process: the        *)
(* synchronous part of its handler up to the first await is one step, and  *)
(* each completion of an awaited remote call (login, operation) is one     *)
(* step, so handlers of different requests interleave at the awaits only,  *)
(* as they do on the Node.js event loop.                                   *)
(***************************************************************************)
EXTENDS Integers, Sequences, FiniteSets, TLC

\* Number of requests (request slots) a run handles.
MaxCalls == 2

Slots == 1..MaxCalls

VARIABLES variant, calls, isAuthenticated, nextSdk, crashed

vars == <<variant, calls, isAuthenticated, nextSdk, crashed>>

----------------------------------------------------------------------------
\* The tool catalogs and dispatch tables

\* names of the `tools` array of the HTTP program, in declaration order
HttpTools ==
    << "create-secret", "delete-secret", "list-secrets", "get-secret",
       "create-project", "list-projects", "create-environment",
       "create-folder", "invite-members-to-project" >>

\* case labels of the switch in FlowMCPHttpServer.handleToolCall
HttpDispatch ==
    { "create-secret", "delete-secret", "update-secret", "list-secrets",
      "get-secret", "create-project", "list-projects", "create-environment",
      "create-folder", "invite-members-to-project" }

\* no case of the switch returning without a remote call
HttpStubs_none == {}

\* the two cases of handleToolCall that return a text without any remote call
HttpStubs == { "create-folder", "invite-members-to-project" }

\* capabilities returned by the stdio ListToolsRequestSchema handler, in order
StdioTools ==
    << "create-secret", "delete-secret", "update-secret", "list-secrets",
       "get-secret", "create-project", "create-environment",
       "create-folder", "invite-members-to-project" >>

\* enum AvailableTools: the names the stdio CallTool handler compares against
AvailableTools ==
    { "create-secret", "delete-secret", "update-secret", "list-secrets",
      "get-secret", "create-project", "create-environment",
      "create-folder", "invite-members-to-project" }

\* a tool name neither program knows
BogusTool == "no-such-tool"

Range(s) == { s[k] : k \in 1..Len(s) }

----------------------------------------------------------------------------
\* The zod schemas: the fields z.object() requires (neither .optional() nor
\* .default())

HttpZodRequired(name) ==
    CASE name = "create-secret" -> {"projectId", "environmentSlug", "secretName"}
      [] name = "delete-secret" -> {"projectId", "environmentSlug", "secretName"}
      [] name = "update-secret" -> {"projectId", "environmentSlug", "secretName"}
      [] name = "list-secrets" -> {"projectId", "environmentSlug"}
      [] name = "get-secret" -> {"projectId", "environmentSlug", "secretName"}
      [] name = "create-project" -> {"projectName"}
      [] name = "list-projects" -> {}
      [] name = "create-environment" -> {"projectId", "environmentName"}
      [] name = "create-folder" -> {"projectId", "environmentSlug"}
      [] name = "invite-members-to-project" -> {"projectId", "emails"}
      [] OTHER -> {}

StdioZodRequired(name) ==
    CASE name = "create-secret" -> {"projectId", "environmentSlug", "secretName"}
      [] name = "delete-secret" -> {"projectId", "environmentSlug", "secretName"}
      [] name = "update-secret" -> {"projectId", "environmentSlug", "secretName"}
      [] name = "list-secrets" -> {"projectId", "environmentSlug"}
      [] name = "get-secret" -> {"projectId", "environmentSlug", "secretName"}
      [] name = "create-project" -> {"projectName", "type"}
      [] name = "create-environment" -> {"projectId", "name", "slug"}
      [] name = "create-folder" -> {"environment", "name", "projectId"}
      [] name = "invite-members-to-project" -> {"projectId"}
      [] OTHER -> {}

\* JSON values: strings, booleans, numbers, arrays (n elements of one type)
\* and undefined, the value of a member that is not there
Str(s) == [t |-> "string", v |-> s, n |-> 0]

Bool(b) == [t |-> "boolean", v |-> b, n |-> 0]

Num(x) == [t |-> "number", v |-> x, n |-> 0]

ArrN(items, n) == [t |-> "array", v |-> items, n |-> n]

Arr(items) == ArrN(items, 1)

Undefined == [t |-> "undefined", v |-> "", n |-> 0]

\* the project types of z.enum([...]) in the stdio createProjectSchema
ProjectTypes == {"secret-manager", "cert-manager", "kms", "ssh"}

\* The fields of each zod object and the type of each: "string", "boolean",
\* "number", "strings" (z.array(z.string())) and "projectType" (the z.enum).
HttpZodTypes(name) ==
    CASE name \in {"create-secret", "update-secret"} ->
            [projectId |-> "string", environmentSlug |-> "string",
             secretName |-> "string", secretValue |-> "string",
             secretPath |-> "string"]
      [] name = "delete-secret" ->
            [projectId |-> "string", environmentSlug |-> "string",
             secretName |-> "string", secretPath |-> "string"]
      [] name = "list-secrets" ->
            [projectId |-> "string", environmentSlug |-> "string",
             secretPath |-> "string", expandSecretReferences |-> "boolean",
             includeImports |-> "boolean"]
      [] name = "get-secret" ->
            [projectId |-> "string", environmentSlug |-> "string",
             secretName |-> "string", secretPath |-> "string",
             expandSecretReferences |-> "boolean", includeImports |-> "boolean"]
      [] name = "create-project" ->
            [projectName |-> "string", workspaceSlug |-> "string",
             organizationId |-> "string"]
      [] name = "create-environment" ->
            [projectId |-> "string", environmentName |-> "string",
             environmentSlug |-> "string"]
      [] name = "create-folder" ->
            [projectId |-> "string", environmentSlug |-> "string",
             secretPath |-> "string"]
      [] name = "invite-members-to-project" ->
            [projectId |-> "string", emails |-> "strings", roles |-> "strings"]
      [] OTHER -> << >>

StdioZodTypes(name) ==
    CASE name = "create-secret" ->
            [projectId |-> "string", environmentSlug |-> "string",
             secretName |-> "string", secretValue |-> "string",
             secretPath |-> "string"]
      [] name = "delete-secret" ->
            [projectId |-> "string", environmentSlug |-> "string",
             secretPath |-> "string", secretName |-> "string"]
      [] name = "update-secret" ->
            [projectId |-> "string", environmentSlug |-> "string",
             secretName |-> "string", newSecretName |-> "string",
             secretValue |-> "string", secretPath |-> "string"]
      [] name = "list-secrets" ->
            [projectId |-> "string", environmentSlug |-> "string",
             secretPath |-> "string", expandSecretReferences |-> "boolean",
             includeImports |-> "boolean"]
      [] name = "get-secret" ->
            [secretName |-> "string", projectId |-> "string",
             environmentSlug |-> "string", secretPath |-> "string",
             expandSecretReferences |-> "boolean", includeImports |-> "boolean"]
      [] name = "create-project" ->
            [projectName |-> "string", type |-> "projectType",
             description |-> "string", slug |-> "string",
             projectTemplate |-> "string", kmsKeyId |-> "string"]
      [] name = "create-environment" ->
            [projectId |-> "string", name |-> "string", slug |-> "string",
             position |-> "number"]
      [] name = "create-folder" ->
            [description |-> "string", environment |-> "string", name |-> "string",
             path |-> "string", projectId |-> "string"]
      [] name = "invite-members-to-project" ->
            [projectId |-> "string", emails |-> "strings",
             usernames |-> "strings", roleSlugs |-> "strings"]
      [] OTHER -> << >>

\* The .default(...) values of each zod object.
HttpZodDefaults(name) ==
    IF name \in {"create-secret", "delete-secret", "update-secret",
                 "list-secrets", "get-secret", "create-folder"}
    THEN [secretPath |-> Str("/")]
    ELSE << >>

StdioZodDefaults(name) ==
    CASE name \in {"create-secret", "delete-secret", "update-secret"} ->
            [secretPath |-> Str("/")]
      [] name \in {"list-secrets", "get-secret"} ->
            [secretPath |-> Str("/"), expandSecretReferences |-> Bool("true"),
             includeImports |-> Bool("true")]
      [] name = "create-folder" -> [path |-> Str("/")]
      [] OTHER -> << >>

\* The inputSchema each entry of tools/list advertises: the type of every
\* property ("array" is an array whose items are not described, "strings"
\* one with items of type string) and the required list.
HttpAdvertisedTypes(name) ==
    CASE name = "create-secret" ->
            [projectId |-> "string", environmentSlug |-> "string",
             secretName |-> "string", secretValue |-> "string",
             secretPath |-> "string"]
      [] name = "delete-secret" ->
            [projectId |-> "string", environmentSlug |-> "string",
             secretName |-> "string", secretPath |-> "string"]
      [] name = "list-secrets" ->
            [projectId |-> "string", environmentSlug |-> "string",
             secretPath |-> "string", expandSecretReferences |-> "boolean",
             includeImports |-> "boolean"]
      [] name = "get-secret" ->
            [projectId |-> "string", environmentSlug |-> "string",
             secretName |-> "string", secretPath |-> "string",
             expandSecretReferences |-> "boolean", includeImports |-> "boolean"]
      [] name = "create-project" ->
            [projectName |-> "string", workspaceSlug |-> "string",
             organizationId |-> "string"]
      [] name = "create-environment" ->
            [projectId |-> "string", environmentName |-> "string",
             environmentSlug |-> "string"]
      [] name = "create-folder" ->
            [projectId |-> "string", environmentSlug |-> "string",
             secretPath |-> "string"]
      [] name = "invite-members-to-project" ->
            [projectId |-> "string", emails |-> "strings", roles |-> "strings"]
      [] OTHER -> << >>

HttpAdvertisedRequired(name) ==
    CASE name \in {"create-secret", "delete-secret", "get-secret"} ->
            {"projectId", "environmentSlug", "secretName"}
      [] name = "list-secrets" -> {"projectId", "environmentSlug"}
      [] name = "create-project" -> {"projectName"}
      [] name = "create-environment" -> {"projectId", "environmentName"}
      [] name = "create-folder" -> {"projectId", "environmentSlug"}
      [] name = "invite-members-to-project" -> {"projectId", "emails"}
      [] OTHER -> {}

StdioAdvertisedTypes(name) ==
    CASE name = "create-secret" ->
            [projectId |-> "string", environmentSlug |-> "string",
             secretName |-> "string", secretValue |-> "string",
             secretPath |-> "string"]
      [] name = "delete-secret" ->
            [projectId |-> "string", environmentSlug |-> "string",
             secretPath |-> "string", secretName |-> "string"]
      [] name = "update-secret" ->
            [projectId |-> "string", environmentSlug |-> "string",
             secretName |-> "string", newSecretName |-> "string",
             secretValue |-> "string", secretPath |-> "string"]
      [] name = "list-secrets" ->
            [projectId |-> "string", environmentSlug |-> "string",
             secretPath |-> "string", expandSecretReferences |-> "boolean",
             includeImports |-> "boolean"]
      [] name = "get-secret" ->
            [secretName |-> "string", projectId |-> "string",
             environmentSlug |-> "string", secretPath |-> "string",
             expandSecretReferences |-> "boolean", includeImports |-> "boolean"]
      [] name = "create-project" ->
            [projectName |-> "string", type |-> "string", description |-> "string",
             slug |-> "string", projectTemplate |-> "string", kmsKeyId |-> "string"]
      [] name = "create-environment" ->
            [projectId |-> "string", name |-> "string", slug |-> "string",
             position |-> "number"]
      [] name = "create-folder" ->
            [description |-> "string", environment |-> "string", name |-> "string",
             path |-> "string", projectId |-> "string"]
      [] name = "invite-members-to-project" ->
            [projectId |-> "string", emails |-> "array", usernames |-> "array",
             roleSlugs |-> "array"]
      [] OTHER -> << >>

StdioAdvertisedRequired(name) ==
    CASE name \in {"create-secret", "delete-secret", "update-secret", "get-secret"} ->
            {"projectId", "environmentSlug", "secretName"}
      [] name = "list-secrets" -> {"projectId", "environmentSlug"}
      [] name = "create-project" -> {"projectName", "type"}
      [] name = "create-environment" -> {"projectId", "name", "slug"}
      [] name = "create-folder" -> {"name", "projectId", "environment"}
      [] name = "invite-members-to-project" -> {"projectId"}
      [] OTHER -> {}

\* the path zod reports when the value to parse is not an object at all
RootPath == ""

\* value v passes the zod type ztype
ZodAccepts(ztype, v) ==
    CASE ztype = "strings" -> v.t = "array" /\ v.v = "string"
      [] ztype = "projectType" -> v.t = "string" /\ v.v \in ProjectTypes
      [] OTHER -> v.t = ztype

\* the members of args that are of another type than their field in types
ZodTypeIssues(types, args) ==
    { f \in args.fields \cap DOMAIN types : ~ZodAccepts(types[f], args.vals[f]) }

\* What z.object(...).parse(args) returns: the members the object declares
\* (others are stripped), with the defaults for those that are absent.
ZodData_noDefaults(types, defaults, args) ==
    [f \in args.fields \cap DOMAIN types |-> args.vals[f]]

ZodData(types, defaults, args) ==
    [f \in (args.fields \cap DOMAIN types) \cup DOMAIN defaults |->
        IF f \in args.fields THEN args.vals[f] ELSE defaults[f]]

\* data.f, undefined when data has no member f
Get(data, f) == IF f \in DOMAIN data THEN data[f] ELSE Undefined

\* x passed on as it is, undefined or not
Coalesce_left(x, y) == x

\* x ?? y
Coalesce(x, y) == IF x = Undefined THEN y ELSE x

\* The value a request gives field f when nothing else is said: one of the
\* type both programs declare for f.
SampleValue(f) ==
    CASE f \in {"emails", "roles", "usernames", "roleSlugs"} -> Arr("string")
      [] f \in {"expandSecretReferences", "includeImports"} -> Bool("false")
      [] f = "position" -> Num("1")
      [] f = "type" -> Str("secret-manager")
      [] f \in {"secretPath", "path"} -> Str("/sub")
      [] OTHER -> Str(f)

\* An argument object: absent (undefined) or the fields it carries and their
\* values.
NoArgs == [present |-> FALSE, fields |-> {}, vals |-> << >>]

ArgsOf(fs) == [present |-> TRUE, fields |-> fs, vals |-> [f \in fs |-> SampleValue(f)]]

\* the argument object with the members of the record extra added
ArgsWith(fs, extra) ==
    [present |-> TRUE, fields |-> fs \cup DOMAIN extra,
     vals |-> [f \in fs \cup DOMAIN extra |->
                  IF f \in DOMAIN extra THEN extra[f] ELSE SampleValue(f)]]

\* z.object(...).parse(args): the paths of the issues of the ZodError it
\* throws; the empty set when it returns.
ZodIssues(required, args) ==
    IF ~args.present THEN {RootPath} ELSE required \ args.fields

\* index of an issue whose path is the field itself
NoIndex == -1

\* one issue of a ZodError: path <field> or <field>.<index>, and its message
Issue(field, index, reason) == [field |-> field, index |-> index, reason |-> reason]

\* parse stopping at the first field that fails
ZodEntries_firstOnly(required, types, args) ==
    IF ~args.present
    THEN { Issue(RootPath, NoIndex, "Required") }
    ELSE LET bad == (required \ args.fields) \cup ZodTypeIssues(types, args)
         IN  IF bad = {} THEN {}
             ELSE { Issue(CHOOSE f \in bad : TRUE, NoIndex, "Required") }

\* The issues of the ZodError z.object(...).parse(args) throws: one for a
\* required field that is absent, one for a member of the wrong type, and,
\* for an array whose elements are of the wrong type, one for each element.
ZodEntries(required, types, args) ==
    IF ~args.present
    THEN { Issue(RootPath, NoIndex, "Required") }
    ELSE LET bad == ZodTypeIssues(types, args)
             elementwise == { f \in bad : types[f] = "strings" /\ args.vals[f].t = "array" }
         IN  { Issue(f, NoIndex, "Required") : f \in required \ args.fields }
             \cup { Issue(f, NoIndex,
                          IF types[f] = "projectType" /\ args.vals[f].t = "string"
                          THEN "Invalid enum value" ELSE "Invalid type") :
                    f \in bad \ elementwise }
             \cup UNION { { Issue(f, k, "Expected string") :
                              k \in 0..(args.vals[f].n - 1) } : f \in elementwise }

----------------------------------------------------------------------------
\* Requests

Methods ==
    { "initialize", "notifications/initialized", "tools/list", "tools/call",
      "bogus/method" }

\* the id member of an envelope that has none (a notification)
NoId == 0

\* The argument objects tried for a schema: none at all, every required
\* field, and every required field but one.
ArgChoices(required) ==
    {NoArgs, ArgsOf(required)} \cup { ArgsOf(required \ {f}) : f \in required }

\* The argument objects that carry every required field and one field that
\* has a default, given as that default.
DefaultArgs(required, defaults) ==
    { ArgsWith(required, [g \in {f} |-> defaults[f]]) : f \in DOMAIN defaults }

\* Argument objects that give an optional member besides the required ones:
\* a value for a secret, a new name for it.
OptionalArgs(name, required) ==
    CASE name = "create-secret" ->
            { ArgsWith(required, [secretValue |-> Str("value")]) }
      [] name = "update-secret" ->
            { ArgsWith(required, [secretValue |-> Str("value")]),
              ArgsWith(required, [newSecretName |-> Str("renamed")]) }
      [] OTHER -> {}

\* the longest array a request carries
MaxElements == 2

\* Argument objects with a member that is of the JSON type its name goes
\* with, and yet unusual: a project type that is no known one, e-mail
\* addresses that are numbers.
OddArgs(name) ==
    CASE name = "create-project" ->
            { ArgsWith({"projectName"}, [type |-> Str("other")]) }
      [] name = "invite-members-to-project" ->
            { ArgsWith({"projectId"}, [emails |-> Arr("number")]),
              ArgsWith({}, [emails |-> ArrN("number", MaxElements)]) }
      [] OTHER -> {}

\* A JSON-RPC envelope {method, id, params: {name, arguments}}.
Envelope(method, id, hasParams, name, args) ==
    [method |-> method, id |-> id, hasParams |-> hasParams, name |-> name,
     args |-> args]

NoEnvelope == Envelope("", NoId, FALSE, "", NoArgs)

\* The envelopes request i may carry in the HTTP program: its id is absent
\* or i.
HttpEnvelopes(i) ==
    { Envelope(m, id, FALSE, "", NoArgs) : m \in Methods, id \in {NoId, i} }
    \cup { Envelope("initialize", id, TRUE, "", NoArgs) : id \in {NoId, i} }
    \cup
    UNION { { Envelope("tools/call", id, TRUE, n, a) :
                id \in {NoId, i}, a \in ArgChoices(HttpZodRequired(n)) } :
            n \in HttpDispatch \cup {BogusTool} }

\* A request as the handler sees it.  transport "post": an HTTP POST, whose
\* req.body is the envelope, or undefined (hasBody = FALSE).  transport "ws":
\* a WebSocket text frame; frame says whether it is no JSON at all
\* ("garbage"), JSON without a jsonrpc member ("nojsonrpc") or an envelope
\* ("json"); hasBody says whether the parsed frame has a `body` member of
\* its own (then holding the same envelope).
Request(transport, frame, hasBody, env) ==
    [transport |-> transport, frame |-> frame, hasBody |-> hasBody, env |-> env]

NoRequest == Request("none", "json", FALSE, NoEnvelope)

HttpRequests(i) ==
    { Request("post", "json", FALSE, NoEnvelope) }
    \cup { Request("get", "json", FALSE, NoEnvelope) }
    \cup { Request("post", "json", TRUE, e) : e \in HttpEnvelopes(i) }
    \cup { Request("ws", f, FALSE, NoEnvelope) : f \in {"garbage", "nojsonrpc"} }
    \cup { Request("ws", "json", b, e) : b \in BOOLEAN, e \in HttpEnvelopes(i) }
    \cup
    UNION { { Request("post", "json", TRUE, Envelope("tools/call", i, TRUE, n, a)) :
                a \in DefaultArgs(HttpZodRequired(n), HttpZodDefaults(n))
                      \cup OptionalArgs(n, HttpZodRequired(n))
                      \cup OddArgs(n) \cup {ArgsOf({})} } :
            n \in HttpDispatch }

\* The requests the MCP SDK hands to the two stdio handlers: params.name is
\* always a string there, params.arguments may be absent.
StdioRequests(i) ==
    { Request("stdio", "json", TRUE, Envelope("tools/list", i, FALSE, "", NoArgs)) }
    \cup
    UNION { { Request("stdio", "json", TRUE, Envelope("tools/call", i, TRUE, n, a)) :
                a \in ArgChoices(StdioZodRequired(n))
                      \cup DefaultArgs(StdioZodRequired(n), StdioZodDefaults(n))
                      \cup OptionalArgs(n, StdioZodRequired(n))
                      \cup OddArgs(n) \cup {ArgsOf({})} } :
            n \in AvailableTools \cup {BogusTool} }

----------------------------------------------------------------------------
\* Errors and responses

NoErr == [kind |-> "none", paths |-> {}, tool |-> "", entries |-> {}]

\* TypeError: destructuring undefined, or calling a method the object lacks
TypeErr == [kind |-> "type", paths |-> {}, tool |-> "", entries |-> {}]

\* ZodError: its message lists every issue with its path
ZodErr(paths) == [kind |-> "zod", paths |-> paths, tool |-> "", entries |-> {}]

\* the ZodError with the issues entries: its message is the list of them
ZodError(entries) ==
    [ZodErr({ e.field : e \in entries }) EXCEPT !.entries = entries]

\* Error(`Unknown tool: ${name}`) / Error(`Unrecognized tool name: ${name}`)
UnknownToolErr(name) ==
    [kind |-> "unknown-tool", paths |-> {}, tool |-> name, entries |-> {}]

\* Error(`Authentication failed: ...`), or the rejection of login itself
AuthErr == [kind |-> "auth", paths |-> {}, tool |-> "", entries |-> {}]

\* ReferenceError: the identifier read is declared nowhere in the program
RefErr == [kind |-> "reference", paths |-> {}, tool |-> "", entries |-> {}]

\* the rejection of a remote operation
RemoteErr == [kind |-> "remote", paths |-> {}, tool |-> "", entries |-> {}]

NoContent == << >>

\* What is sent back for a request.  status is the HTTP status (0 where the
\* transport has none), kind is "result", "error", "empty" (no body) or
\* "thrown" (the stdio handler threw, the MCP SDK reports it).
BaseResponse ==
    [status |-> 200, kind |-> "result", code |-> 0, id |-> NoId, what |-> "",
     pv |-> "", tools |-> << >>, content |-> NoContent, err |-> NoErr,
     authentication |-> ""]

ProtocolVersion == "2024-11-05"

\* the payload returned as a block of structured data
TextBlock_json(tag) == [type |-> "json", text |-> tag]

\* one content block {type: "text", text: ...}; the text is named by its tag
TextBlock(tag) == [type |-> "text", text |-> tag]

\* a template string `<label>${...}`: its fixed beginning and the value
\* interpolated into it
Text(label, shown) == [label |-> label, shown |-> shown]

----------------------------------------------------------------------------
\* The state of one request

\* sdk of a request that created no client
NoSdk == 0

\* the client of the stdio program (const infisicalSdk)
infisicalSdk == 1

IdleCall ==
    [pc |-> "idle", req |-> NoRequest, sdk |-> NoSdk, trace |-> << >>,
     sent |-> << >>, err |-> NoErr, unhandled |-> FALSE]

\* What the remote API answers to operation op called with args.  For a
\* listSecrets answer list is the sequence of its secret records and keys
\* are the members every record has (both empty for the other operations,
\* whose answers are not looked into).
Result(op, args, keys) == [op |-> op, args |-> args, keys |-> keys, list |-> << >>]

\* one secret record of a listing: its secretKey, and id to tell it from
\* other records of the same key
SecretRecord(key, id) == [secretKey |-> key, id |-> id]

\* The listings the remote API may answer with: the secret the requests ask
\* for alone, another secret alone, and another secret followed by two
\* records with the key asked for.
Listings ==
    { << SecretRecord("secretName", "a") >>,
      << SecretRecord("other", "a") >>,
      << SecretRecord("other", "a"), SecretRecord("secretName", "b"),
         SecretRecord("secretName", "c") >> }

NoResult == Result("", << >>, {})

\* the members of a secret record the programs read
SecretKeyValue == {"secretKey", "secretValue"}

\* The answers the remote API may give to a call: a listSecrets answer has
\* records of key and value alone or with metadata as well.
Results(call) ==
    IF call.op = "secrets.listSecrets"
    THEN { [Result(call.op, call.args, SecretKeyValue \cup meta) EXCEPT !.list = l] :
              meta \in {{}, {"id", "version"}}, l \in Listings }
    ELSE { Result(call.op, call.args, {}) }

\* a call to the remote API made on client sdk; st is "pending", "ok", "fail"
RemoteCall(op, sdk, st) ==
    [op |-> op, sdk |-> sdk, st |-> st, args |-> << >>, res |-> NoResult]

\* operation op called on client sdk with args, not yet settled
Invoke(op, sdk, args) == [RemoteCall(op, sdk, "pending") EXCEPT !.args = args]

\* the last remote call of c
LastCall(c) == c.trace[Len(c.trace)]

\* the last remote call of c has resolved with res
Resolved(c, res) ==
    [c EXCEPT !.trace = [@ EXCEPT ![Len(@)] = [@ EXCEPT !.st = "ok", !.res = res]]]

\* the last remote call of c has completed with outcome st
Completed(c, st) ==
    [c EXCEPT !.trace = [@ EXCEPT ![Len(@)] = [@ EXCEPT !.st = st]]]

Init ==
    /\ variant \in {"http", "stdio"}
    /\ calls = [i \in Slots |-> IdleCall]
    /\ isAuthenticated = FALSE
    /\ nextSdk = infisicalSdk + 1
    /\ crashed = FALSE

----------------------------------------------------------------------------
\* The HTTP program: handleJsonRpcRequest and handleToolCall

\* req.body?.id
BodyId(r) == IF r.hasBody THEN r.env.id ELSE NoId

\* res is an express Response for a POST; for a WebSocket frame the handler
\* is given the socket itself, which has neither json() nor status()
HasResponseApi(r) == r.transport = "post"

\* Catch without its try/catch: the error leaves the handler, nothing is sent
Catch_rethrow(c, e) == [c EXCEPT !.pc = "done", !.err = e, !.unhandled = TRUE]

\* The catch block of handleJsonRpcRequest: res.status(500).json(...).  On a
\* socket res.status is not a function: the TypeError leaves the async
\* handler as a rejection nobody handles.
Catch(c, e) ==
    IF HasResponseApi(c.req)
    THEN [c EXCEPT !.pc = "done", !.err = e,
                   !.sent = Append(@, [BaseResponse EXCEPT
                                !.status = 500, !.kind = "error", !.code = -32603,
                                !.id = BodyId(c.req), !.what = "error", !.err = e])]
    ELSE [c EXCEPT !.pc = "done", !.err = e, !.unhandled = TRUE]

\* res.json(...) / res.status(...).json(...) / res.status(204).send() inside
\* the try block
ResSend(c, resp) ==
    IF HasResponseApi(c.req)
    THEN [c EXCEPT !.pc = "done", !.sent = Append(@, resp)]
    ELSE Catch(c, TypeErr)

\* createAuthenticatedSdk logging in on one client kept for all calls
createAuthenticatedSdk_shared(c, sdk) ==
    [c EXCEPT !.pc = "login", !.sdk = infisicalSdk,
              !.trace = Append(@, RemoteCall("login", infisicalSdk, "pending"))]

\* const sdk = new InfisicalSDK(...); await sdk.auth().universalAuth.login(...)
createAuthenticatedSdk(c, sdk) ==
    [c EXCEPT !.pc = "login", !.sdk = sdk,
              !.trace = Append(@, RemoteCall("login", sdk, "pending"))]

\* the remote operation each case of handleToolCall awaits
HttpRemoteOp(name) ==
    CASE name = "create-secret" -> "secrets.createSecret"
      [] name = "delete-secret" -> "secrets.deleteSecret"
      [] name = "update-secret" -> "secrets.updateSecret"
      [] name = "list-secrets" -> "secrets.listSecrets"
      [] name = "get-secret" -> "secrets.listSecrets"
      [] name = "create-project" -> "projects.create"
      [] name = "list-projects" -> "projects.listProjects"
      [] name = "create-environment" -> "environments.create"
      [] OTHER -> "none"

\* handleToolCall's data: <schema>.parse(args)
HttpData(c) ==
    ZodData(HttpZodTypes(c.req.env.name), HttpZodDefaults(c.req.env.name),
            c.req.env.args)

\* the arguments each case of handleToolCall passes to its remote operation
HttpRemoteArgs(name, d) ==
    CASE name \in {"create-secret", "update-secret"} ->
            [secretName |-> Get(d, "secretName"),
             environment |-> Get(d, "environmentSlug"),
             projectId |-> Get(d, "projectId"),
             secretPath |-> Get(d, "secretPath"),
             secretValue |-> Coalesce(Get(d, "secretValue"), Str(""))]
      [] name = "delete-secret" ->
            [secretName |-> Get(d, "secretName"),
             environment |-> Get(d, "environmentSlug"),
             projectId |-> Get(d, "projectId"),
             secretPath |-> Get(d, "secretPath")]
      [] name \in {"list-secrets", "get-secret"} ->
            [environment |-> Get(d, "environmentSlug"),
             projectId |-> Get(d, "projectId"),
             secretPath |-> Get(d, "secretPath"),
             expandSecretReferences |-> Get(d, "expandSecretReferences"),
             includeImports |-> Get(d, "includeImports")]
      [] name = "create-project" ->
            [name |-> Get(d, "projectName"),
             workspaceSlug |-> Get(d, "workspaceSlug"),
             organizationId |-> Get(d, "organizationId")]
      [] name = "create-environment" ->
            [projectId |-> Get(d, "projectId"),
             name |-> Get(d, "environmentName"),
             slug |-> Get(d, "environmentSlug")]
      [] OTHER -> << >>

\* get-secret returning the last record of the key
getSecretText_last(d, res) ==
    LET hits == { k \in 1..Len(res.list) : Str(res.list[k].secretKey) = Get(d, "secretName") }
    IN  IF hits # {}
        THEN Text("Secret: ",
                  [res EXCEPT !.list = << res.list[CHOOSE k \in hits :
                                                     \A l \in hits : l <= k] >>])
        ELSE Text("Secret not found: ", [secretName |-> Get(d, "secretName")])

\* the text of the get-secret case: allSecrets.secrets.find(s => s.secretKey
\* === getData.secretName), the first record of that key, or none
getSecretText(d, res) ==
    LET hits == { k \in 1..Len(res.list) : Str(res.list[k].secretKey) = Get(d, "secretName") }
    IN  IF hits # {}
        THEN Text("Secret: ",
                  [res EXCEPT !.list = << res.list[CHOOSE k \in hits :
                                                     \A l \in hits : k <= l] >>])
        ELSE Text("Secret not found: ", [secretName |-> Get(d, "secretName")])

\* the text each case of handleToolCall returns; res is what its remote
\* operation resolved with
HttpText(name, d, res) ==
    CASE name = "create-secret" -> Text("Secret created successfully: ", res)
      [] name = "delete-secret" -> Text("Secret deleted successfully: ", res)
      [] name = "update-secret" -> Text("Secret updated successfully: ", res)
      [] name = "list-secrets" -> Text("Secrets: ", res)
      [] name = "get-secret" -> getSecretText(d, res)
      [] name = "create-project" -> Text("Project created successfully: ", res)
      [] name = "list-projects" -> Text("Projects: ", res)
      [] name = "create-environment" ->
            Text("Environment created successfully: ", res)
      [] name = "create-folder" ->
            Text("Folder creation request for path: ",
                 [secretPath |-> Get(d, "secretPath")])
      [] name = "invite-members-to-project" ->
            Text("Member invitation request for project: ",
                 [projectId |-> Get(d, "projectId"), emails |-> Get(d, "emails")])
      [] OTHER -> Text("", NoResult)

\* the awaited value kept in one variable of the module: a handler resuming
\* after another one has resolved reads that other result
OwnResult_lastResolved(c) ==
    LET other == calls[MaxCalls] IN
    IF other.trace # << >> /\ LastCall(other).op # "login" /\ LastCall(other).st = "ok"
    THEN LastCall(other).res
    ELSE IF c.trace # << >> /\ LastCall(c).op # "login" /\ LastCall(c).st = "ok"
         THEN LastCall(c).res
         ELSE NoResult

\* the result of the remote operation of c, if it has resolved
OwnResult(c) ==
    IF c.trace # << >> /\ LastCall(c).op # "login" /\ LastCall(c).st = "ok"
    THEN LastCall(c).res
    ELSE NoResult

\* { content: [ { type: "text", text: ... } ] } as the result of tools/call
CallResponse(c) ==
    [BaseResponse EXCEPT
        !.id = c.req.env.id, !.what = "content",
        !.content = << TextBlock(HttpText(c.req.env.name, HttpData(c), OwnResult(c))) >>]

\* handleToolCall up to its first await (or to its return or throw)
handleToolCall(c, sdk) ==
    LET e == c.req.env
        issues == ZodIssues(HttpZodRequired(e.name), e.args)
                    \cup ZodTypeIssues(HttpZodTypes(e.name), e.args)
    IN  IF ~e.hasParams THEN Catch(c, TypeErr)
        ELSE IF e.name \notin HttpDispatch THEN Catch(c, UnknownToolErr(e.name))
        ELSE IF e.name = "list-projects" THEN createAuthenticatedSdk(c, sdk)
        ELSE IF issues # {}
             THEN Catch(c, ZodError(ZodEntries(HttpZodRequired(e.name),
                                               HttpZodTypes(e.name), e.args)))
        ELSE IF e.name \in HttpStubs THEN ResSend(c, CallResponse(c))
        ELSE createAuthenticatedSdk(c, sdk)

\* a session opened by initialize: a second initialize is refused
caseInitialize_once(c) ==
    IF \E j \in Slots : calls[j].pc # "idle" /\ calls[j].req.hasBody
                        /\ calls[j].req.env.method = "initialize"
    THEN Catch(c, TypeErr)
    ELSE ResSend(c, [BaseResponse EXCEPT !.id = c.req.env.id, !.what = "init",
                                         !.pv = ProtocolVersion])

\* initialize answering the version the client's params ask for
caseInitialize_echoVersion(c) ==
    ResSend(c, [BaseResponse EXCEPT !.id = c.req.env.id, !.what = "init",
                   !.pv = IF c.req.env.hasParams THEN "client" ELSE ProtocolVersion])

\* case 'initialize'
caseInitialize(c) ==
    ResSend(c, [BaseResponse EXCEPT !.id = c.req.env.id, !.what = "init",
                                    !.pv = ProtocolVersion])

\* the notification answered like a request
caseInitialized_reply(c) == ResSend(c, [BaseResponse EXCEPT !.id = c.req.env.id])

\* case 'notifications/initialized': res.status(204).send()
caseInitialized(c) ==
    ResSend(c, [BaseResponse EXCEPT !.status = 204, !.kind = "empty"])

\* case 'tools/list'
caseToolsList(c) ==
    ResSend(c, [BaseResponse EXCEPT !.id = c.req.env.id, !.what = "tools",
                                    !.tools = HttpTools])

\* the default case throwing into the catch block
caseDefault_throw(c) == Catch(c, TypeErr)

\* default: res.status(404).json(...)
caseDefault(c) ==
    ResSend(c, [BaseResponse EXCEPT !.status = 404, !.kind = "error",
                                    !.code = -32601, !.id = c.req.env.id,
                                    !.what = "error"])

\* handleJsonRpcRequest up to its first await (or to its response):
\* destructuring req.body throws when there is none
handleJsonRpcRequest(c, sdk) ==
    IF ~c.req.hasBody THEN Catch(c, TypeErr)
    ELSE CASE c.req.env.method = "initialize" -> caseInitialize(c)
           [] c.req.env.method = "notifications/initialized" -> caseInitialized(c)
           [] c.req.env.method = "tools/list" -> caseToolsList(c)
           [] c.req.env.method = "tools/call" -> handleToolCall(c, sdk)
           [] OTHER -> caseDefault(c)

\* the ws 'message' handler without its try/catch: the SyntaxError of
\* JSON.parse leaves the listener
wsOnMessage_noCatch(c, sdk) ==
    CASE c.req.frame = "garbage" -> [c EXCEPT !.pc = "done", !.unhandled = TRUE]
      [] c.req.frame = "nojsonrpc" -> [c EXCEPT !.pc = "done"]
      [] OTHER -> handleJsonRpcRequest(c, sdk)

\* the ws 'message' handler
wsOnMessage(c, sdk) ==
    CASE c.req.frame = "garbage" ->
            [c EXCEPT !.pc = "done",
                      !.sent = Append(@, [BaseResponse EXCEPT
                                   !.status = 0, !.kind = "error", !.code = -32700,
                                   !.what = "error"])]
      [] c.req.frame = "nojsonrpc" -> [c EXCEPT !.pc = "done"]
      [] OTHER -> handleJsonRpcRequest(c, sdk)

\* Requests are numbered in the order they arrive.
Arrives(i) ==
    /\ ~crashed
    /\ calls[i].pc = "idle"
    /\ \A j \in 1..(i - 1) : calls[j].pc # "idle"

\* The effect of one handler step that leaves request i in state c.  A
\* rejection nobody handles ends the process or not, as the runtime decides.
HttpStep(i, c) ==
    /\ calls' = [calls EXCEPT ![i] = c]
    /\ nextSdk' = IF c.sdk # calls[i].sdk THEN nextSdk + 1 ELSE nextSdk
    /\ crashed' \in (IF c.unhandled THEN BOOLEAN ELSE {FALSE})
    /\ UNCHANGED <<variant, isAuthenticated>>

\* POST /, /rpc, /mcp
HttpPost(i) ==
    /\ variant = "http"
    /\ Arrives(i)
    /\ \E r \in { q \in HttpRequests(i) : q.transport = "post" } :
          HttpStep(i, handleJsonRpcRequest([calls[i] EXCEPT !.req = r], nextSdk))

\* a text frame on a WebSocket connection
WsMessage(i) ==
    /\ variant = "http"
    /\ Arrives(i)
    /\ \E r \in { q \in HttpRequests(i) : q.transport = "ws" } :
          HttpStep(i, wsOnMessage([calls[i] EXCEPT !.req = r], nextSdk))

\* the login of createAuthenticatedSdk settles; on success handleToolCall
\* goes on to its remote operation
HttpLoginDone(i) ==
    /\ variant = "http"
    /\ ~crashed
    /\ calls[i].pc = "login"
    /\ \E ok \in BOOLEAN :
          HttpStep(i,
             IF ok
             THEN [Completed(calls[i], "ok") EXCEPT
                      !.pc = "op",
                      !.trace = Append(@, Invoke(HttpRemoteOp(calls[i].req.env.name),
                                                 calls[i].sdk,
                                                 HttpRemoteArgs(calls[i].req.env.name,
                                                                HttpData(calls[i]))))]
             ELSE Catch(Completed(calls[i], "fail"), AuthErr))

\* a rejected operation tried once more before giving up
HttpOpDone_retry(i) ==
    /\ variant = "http"
    /\ ~crashed
    /\ calls[i].pc = "op"
    /\ \/ \E res \in Results(LastCall(calls[i])) :
             HttpStep(i, ResSend(Resolved(calls[i], res),
                                 CallResponse(Resolved(calls[i], res))))
       \/ IF Len(calls[i].trace) <= 2
          THEN HttpStep(i, [Completed(calls[i], "fail") EXCEPT
                              !.trace = Append(@, Invoke(LastCall(calls[i]).op,
                                                         calls[i].sdk,
                                                         LastCall(calls[i]).args))])
          ELSE HttpStep(i, Catch(Completed(calls[i], "fail"), RemoteErr))

\* the remote operation settles
HttpOpDone(i) ==
    /\ variant = "http"
    /\ ~crashed
    /\ calls[i].pc = "op"
    /\ \/ \E res \in Results(LastCall(calls[i])) :
             HttpStep(i, ResSend(Resolved(calls[i], res),
                                 CallResponse(Resolved(calls[i], res))))
       \/ HttpStep(i, Catch(Completed(calls[i], "fail"), RemoteErr))

\* The GET /ready handler: res.json({status, tools, authentication:
\* isAuthenticated}).  The HTTP program declares no isAuthenticated: where the
\* identifier is bound (bound = TRUE) it is the flag of line 797, which
\* nothing in the HTTP program writes; where it is not, reading it throws
\* and express answers 500.
getReady(c, bound) ==
    IF bound
    THEN [c EXCEPT !.pc = "done",
                   !.sent = Append(@, [BaseResponse EXCEPT
                                !.what = "ready",
                                !.authentication =
                                    IF isAuthenticated THEN "true" ELSE "false"])]
    ELSE [c EXCEPT !.pc = "done", !.err = RefErr,
                   !.sent = Append(@, [BaseResponse EXCEPT
                                !.status = 500, !.kind = "error",
                                !.what = "error", !.err = RefErr])]

\* GET /ready
HttpGetReady(i) ==
    /\ variant = "http"
    /\ Arrives(i)
    /\ \E bound \in BOOLEAN :
          HttpStep(i, getReady([calls[i] EXCEPT
                                   !.req = Request("get", "json", FALSE, NoEnvelope)],
                               bound))

NextHttp ==
    \E i \in Slots :
        HttpPost(i) \/ WsMessage(i) \/ HttpGetReady(i) \/ HttpLoginDone(i) \/ HttpOpDone(i)

----------------------------------------------------------------------------
\* The stdio program: handleAuthentication and the two request handlers

\* the remote operation each branch of the CallTool handler awaits
StdioRemoteOp(name) ==
    CASE name = "create-secret" -> "secrets.createSecret"
      [] name = "delete-secret" -> "secrets.deleteSecret"
      [] name = "update-secret" -> "secrets.updateSecret"
      [] name = "list-secrets" -> "secrets.listSecrets"
      [] name = "get-secret" -> "secrets.getSecret"
      [] name = "create-project" -> "projects.create"
      [] name = "create-environment" -> "environments.create"
      [] name = "create-folder" -> "folders.create"
      [] name = "invite-members-to-project" -> "projects.inviteMembers"
      [] OTHER -> "none"

\* the data of a branch of the CallTool handler: <schema>.zod.parse(args)
StdioData(c) ==
    ZodData(StdioZodTypes(c.req.env.name), StdioZodDefaults(c.req.env.name),
            c.req.env.args)

\* the arguments each branch passes to its remote operation
StdioRemoteArgs(name, d) ==
    CASE name \in {"create-secret", "update-secret"} ->
            [secretName |-> Get(d, "secretName"),
             environment |-> Get(d, "environmentSlug"),
             projectId |-> Get(d, "projectId"),
             secretPath |-> Get(d, "secretPath"),
             secretValue |-> Coalesce(Get(d, "secretValue"), Str(""))]
      [] name = "delete-secret" ->
            [secretName |-> Get(d, "secretName"),
             environment |-> Get(d, "environmentSlug"),
             projectId |-> Get(d, "projectId"),
             secretPath |-> Get(d, "secretPath")]
      [] name = "list-secrets" ->
            [environment |-> Get(d, "environmentSlug"),
             projectId |-> Get(d, "projectId"),
             secretPath |-> Get(d, "secretPath"),
             expandSecretReferences |-> Get(d, "expandSecretReferences"),
             includeImports |-> Get(d, "includeImports")]
      [] name = "get-secret" ->
            [environment |-> Get(d, "environmentSlug"),
             projectId |-> Get(d, "projectId"),
             secretName |-> Get(d, "secretName"),
             secretPath |-> Get(d, "secretPath"),
             expandSecretReferences |-> Get(d, "expandSecretReferences"),
             includeImports |-> Get(d, "includeImports")]
      [] name = "create-project" ->
            [projectName |-> Get(d, "projectName"),
             projectDescription |-> Get(d, "description"),
             kmsKeyId |-> Get(d, "kmsKeyId"),
             slug |-> Get(d, "slug"),
             template |-> Get(d, "projectTemplate"),
             type |-> Get(d, "type")]
      [] name = "create-environment" ->
            [projectId |-> Get(d, "projectId"),
             name |-> Get(d, "name"),
             slug |-> Get(d, "slug"),
             position |-> Get(d, "position")]
      [] name = "create-folder" ->
            [description |-> Get(d, "description"),
             environment |-> Get(d, "environment"),
             name |-> Get(d, "name"),
             path |-> Get(d, "path"),
             projectId |-> Get(d, "projectId")]
      [] name = "invite-members-to-project" ->
            [projectId |-> Get(d, "projectId"),
             emails |-> Get(d, "emails"),
             usernames |-> Get(d, "usernames"),
             roleSlugs |-> Get(d, "roleSlugs")]
      [] OTHER -> << >>

\* the text each branch returns for what its remote operation resolved with;
\* the ListSecrets branch maps every secret record to its secretKey and
\* secretValue first
StdioText(name, res) ==
    CASE name = "create-secret" -> Text("Secret created successfully: ", res)
      [] name = "delete-secret" -> Text("Secret deleted successfully: ", res)
      [] name = "update-secret" ->
            Text("Secret updated successfully. Updated secret: ", res)
      [] name = "list-secrets" ->
            Text("", [res EXCEPT !.keys = @ \cap SecretKeyValue])
      [] name = "get-secret" -> Text("Secret retrieved successfully: ", res)
      [] name = "create-project" -> Text("Project created successfully: ", res)
      [] name = "create-environment" ->
            Text("Environment created successfully: ", res)
      [] name = "create-folder" -> Text("Folder created successfully: ", res)
      [] name = "invite-members-to-project" ->
            Text("Members successfully invited to project: ", res)
      [] OTHER -> Text("", NoResult)

\* { content: [ { type: "text", text: ... } ] } as a branch returns it
CallToolResult(c) ==
    [BaseResponse EXCEPT
        !.status = 0, !.id = c.req.env.id, !.what = "content",
        !.content = << TextBlock(StdioText(c.req.env.name, OwnResult(c))) >>]

\* the handler throws e: the MCP SDK answers the request with an error
Throw(c, e) ==
    [c EXCEPT !.pc = "done", !.err = e,
              !.sent = Append(@, [BaseResponse EXCEPT
                           !.status = 0, !.kind = "thrown", !.id = c.req.env.id,
                           !.what = "error", !.err = e])]

\* the handler returns v
Return(c, v) == [c EXCEPT !.pc = "done", !.sent = Append(@, v)]

\* The CallTool handler after `await handleAuthentication()`: the branch of
\* the tool name parses the arguments and starts its remote operation.  A
\* ZodError is rethrown as Error(`Invalid arguments: <path>: <message>, ...`).
callToolAfterAuth(c) ==
    LET e == c.req.env
        issues == ZodIssues(StdioZodRequired(e.name), e.args)
                    \cup ZodTypeIssues(StdioZodTypes(e.name), e.args)
    IN  IF e.name \notin AvailableTools THEN Throw(c, UnknownToolErr(e.name))
        ELSE IF issues # {}
             THEN Throw(c, ZodError(ZodEntries(StdioZodRequired(e.name),
                                               StdioZodTypes(e.name), e.args)))
        ELSE [c EXCEPT !.pc = "op",
                       !.trace = Append(@, Invoke(StdioRemoteOp(e.name), infisicalSdk,
                                                  StdioRemoteArgs(e.name, StdioData(c))))]

\* handleAuthentication up to its await: nothing to do once isAuthenticated
handleAuthentication(c, authenticated) ==
    IF authenticated
    THEN callToolAfterAuth(c)
    ELSE [c EXCEPT !.pc = "login", !.sdk = infisicalSdk,
                   !.trace = Append(@, RemoteCall("login", infisicalSdk, "pending"))]

\* tools/list logging in first, as tools/call does
listTools_authFirst(c) == handleAuthentication(c, FALSE)

\* the ListToolsRequestSchema handler
listTools(c) ==
    Return(c, [BaseResponse EXCEPT !.status = 0, !.id = c.req.env.id,
                                   !.what = "tools", !.tools = StdioTools])

StdioStep(i, c, authenticated) ==
    /\ calls' = [calls EXCEPT ![i] = c]
    /\ isAuthenticated' = authenticated
    /\ UNCHANGED <<variant, nextSdk, crashed>>

\* a tools/list request arrives
StdioListTools(i) ==
    /\ variant = "stdio"
    /\ Arrives(i)
    /\ \E r \in { q \in StdioRequests(i) : q.env.method = "tools/list" } :
          StdioStep(i, listTools([calls[i] EXCEPT !.req = r]), isAuthenticated)

\* a tools/call request arrives
StdioCallTool(i) ==
    /\ variant = "stdio"
    /\ Arrives(i)
    /\ \E r \in { q \in StdioRequests(i) : q.env.method = "tools/call" } :
          StdioStep(i, handleAuthentication([calls[i] EXCEPT !.req = r], isAuthenticated),
                    isAuthenticated)

\* the flag set whether the login succeeded or not
StdioLoginDone_flagAlways(i) ==
    /\ variant = "stdio"
    /\ calls[i].pc = "login"
    /\ \E ok \in BOOLEAN :
          IF ok
          THEN StdioStep(i, callToolAfterAuth(Completed(calls[i], "ok")), TRUE)
          ELSE StdioStep(i, Throw(Completed(calls[i], "fail"), AuthErr), TRUE)

\* universalAuth.login settles: on success isAuthenticated = true and the
\* handler goes on; a rejection leaves the handler through its catch
StdioLoginDone(i) ==
    /\ variant = "stdio"
    /\ calls[i].pc = "login"
    /\ \E ok \in BOOLEAN :
          IF ok
          THEN StdioStep(i, callToolAfterAuth(Completed(calls[i], "ok")), TRUE)
          ELSE StdioStep(i, Throw(Completed(calls[i], "fail"), AuthErr), isAuthenticated)

\* a rejected operation taken for an expired token: the flag is cleared
StdioOpDone_resetOnFail(i) ==
    /\ variant = "stdio"
    /\ calls[i].pc = "op"
    /\ \/ \E res \in Results(LastCall(calls[i])) :
             StdioStep(i, Return(Resolved(calls[i], res),
                                 CallToolResult(Resolved(calls[i], res))),
                       isAuthenticated)
       \/ StdioStep(i, Throw(Completed(calls[i], "fail"), RemoteErr), FALSE)

\* the remote operation settles
StdioOpDone(i) ==
    /\ variant = "stdio"
    /\ calls[i].pc = "op"
    /\ \/ \E res \in Results(LastCall(calls[i])) :
             StdioStep(i, Return(Resolved(calls[i], res),
                                 CallToolResult(Resolved(calls[i], res))),
                       isAuthenticated)
       \/ StdioStep(i, Throw(Completed(calls[i], "fail"), RemoteErr), isAuthenticated)

NextStdio ==
    \E i \in Slots :
        StdioListTools(i) \/ StdioCallTool(i) \/ StdioLoginDone(i) \/ StdioOpDone(i)

Next == NextHttp \/ NextStdio

Spec == Init /\ [][Next]_vars

----------------------------------------------------------------------------
\* Vocabulary of the properties

Seen(c) == c.pc # "idle"

Done(c) == c.pc = "done"

\* the request reaches a handler that answers it: a POST or a stdio request
\* (a WebSocket frame is handed to handleJsonRpcRequest with the socket as res)
Answerable(c) == c.req.transport \in {"post", "stdio"}

\* the handler sees a tools/call with a params object
ToolCallSeen(c) ==
    Seen(c) /\ c.req.hasBody /\ c.req.env.method = "tools/call" /\ c.req.env.hasParams

\* the handler sees a tools/list
ToolsListSeen(c) == Seen(c) /\ c.req.hasBody /\ c.req.env.method = "tools/list"

ZodRequired(name) ==
    IF variant = "http" THEN HttpZodRequired(name) ELSE StdioZodRequired(name)

MissingRequired(c) == ZodRequired(c.req.env.name) \ c.req.env.args.fields

\* the calls to the remote API of c that are no login
Operations(c) == { k \in 1..Len(c.trace) : c.trace[k].op # "login" }

LoginSucceeded(c) ==
    \E k \in 1..Len(c.trace) : c.trace[k].op = "login" /\ c.trace[k].st = "ok"

----------------------------------------------------------------------------
\* C1: a tools/call whose argument object lacks a required field of its tool
\* ends in a validation error naming every missing field, and sends nothing
\* to the remote API (no login, no operation), in both programs and whatever
\* isAuthenticated is.
C1_MissingFieldRejectedWithoutRemote ==
    \A i \in Slots :
        LET c == calls[i] IN
        (ToolCallSeen(c) /\ c.req.env.args.present /\ MissingRequired(c) # {})
            => /\ c.trace = << >>
               /\ Done(c) => (c.err.kind = "zod" /\ MissingRequired(c) \subseteq c.err.paths)

\* C2: in the HTTP program every remote operation of a call directly follows,
\* in that call, a successful login on the client created for the call, and
\* no two calls share a client.
C2_FreshCredentialBeforeEveryOperation ==
    variant = "http" =>
        /\ \A i \in Slots : \A k \in Operations(calls[i]) :
              /\ k > 1
              /\ calls[i].trace[k - 1].op = "login"
              /\ calls[i].trace[k - 1].st = "ok"
              /\ calls[i].trace[k - 1].sdk = calls[i].trace[k].sdk
        /\ \A i \in Slots : \A k \in 1..Len(calls[i].trace) :
              /\ calls[i].trace[k].sdk = calls[i].sdk
              /\ calls[i].sdk # infisicalSdk
        /\ \A i, j \in Slots :
              (i # j /\ calls[i].sdk # NoSdk) => calls[i].sdk # calls[j].sdk

\* two tool calls in flight at once, one already past its login and one
\* whose operation was answered
C2_Witness ==
    /\ variant = "http"
    /\ \E i, j \in Slots :
          /\ i # j
          /\ calls[i].pc = "op"
          /\ Done(calls[j]) /\ Len(calls[j].trace) = 2 /\ calls[j].trace[2].st = "ok"

\* C3: in the stdio program the login succeeds at most once in the process
\* lifetime, and isAuthenticated is set exactly when it has succeeded.
C3_AuthenticatesOnce ==
    variant = "stdio" =>
        /\ Cardinality({ i \in Slots : LoginSucceeded(calls[i]) }) <= 1
        /\ isAuthenticated <=> (\E i \in Slots : LoginSucceeded(calls[i]))

\* what makes the handling of a POSTed request fail
PostFailure(c) ==
    \/ ~c.req.hasBody
    \/ /\ c.req.env.method = "tools/call"
       /\ \/ ~c.req.env.hasParams
          \/ c.req.env.name \notin HttpDispatch
          \/ /\ c.req.env.name # "list-projects"
             /\ ZodIssues(HttpZodRequired(c.req.env.name), c.req.env.args)
                   \cup ZodTypeIssues(HttpZodTypes(c.req.env.name), c.req.env.args) # {}
          \/ \E k \in 1..Len(c.trace) : c.trace[k].st = "fail"

PostOf(c) ==
    handleJsonRpcRequest([IdleCall EXCEPT !.req = Request("post", "json", TRUE, c.req.env)],
                         NoSdk)

\* C5: a JSON-RPC envelope sent as a WebSocket frame is answered on the
\* socket, with what POSTing it answers, and leaves no uncaught error.
C5_WsDispatchedLikeHttp ==
    \A i \in Slots :
        LET c == calls[i] IN
        (Done(c) /\ c.req.transport = "ws" /\ c.req.frame = "json") =>
            /\ ~c.unhandled
            /\ Len(c.sent) = 1
            /\ c.req.env.method # "tools/call" => c.sent = PostOf(c).sent

\* the call got as far as the branch on its tool name (in the stdio program
\* a failed login ends the call before it)
NameResolved(c) ==
    /\ ToolCallSeen(c) /\ Done(c) /\ Answerable(c)
    /\ ~(\E k \in 1..Len(c.trace) : c.trace[k].op = "login" /\ c.trace[k].st = "fail")

\* C6: a tool name is in the answer of tools/list exactly if tools/call does
\* not reject it as unknown.
C6_ListedIffCallable ==
    \A i, j \in Slots :
        LET l == calls[i]
            c == calls[j]
        IN  (ToolsListSeen(l) /\ Done(l) /\ Answerable(l) /\ NameResolved(c))
            => (c.req.env.name \in Range(l.sent[1].tools)
                    <=> c.err.kind # "unknown-tool")

Catalog == IF variant = "http" THEN HttpTools ELSE StdioTools

\* the answers to tools/list: the catalog, with no remote call
C7_CatalogFixed ==
    /\ \A i \in Slots :
          LET c == calls[i] IN
          (ToolsListSeen(c) /\ Answerable(c)) =>
              /\ Done(c)
              /\ c.trace = << >> /\ c.sdk = NoSdk
              /\ Len(c.sent) = 1
              /\ c.sent[1].kind = "result"
              /\ c.sent[1].tools = Catalog
              /\ Len(c.sent[1].tools) \in {9, 10}
    /\ \A i, j \in Slots :
          (/\ ToolsListSeen(calls[i]) /\ Answerable(calls[i]) /\ Len(calls[i].sent) = 1
           /\ ToolsListSeen(calls[j]) /\ Answerable(calls[j]) /\ Len(calls[j].sent) = 1)
          => calls[i].sent[1].tools = calls[j].sent[1].tools

\* the step that answers a tools/list leaves isAuthenticated alone
C7_ListStep ==
    \A i \in Slots :
        (~Seen(calls[i]) /\ ToolsListSeen(calls'[i]) /\ Answerable(calls'[i]))
            => isAuthenticated' = isAuthenticated

\* C7: tools/list answers the same catalog, in the same order, in every
\* state (before a login, after a successful one, after a failed one), makes
\* no login and does not change isAuthenticated.
C7_ToolsListSameCatalogAlways == []C7_CatalogFixed /\ [][C7_ListStep]_vars

\* tools/list answered in a process whose first call has logged in
C7_Witness ==
    /\ variant = "stdio"
    /\ isAuthenticated
    /\ LoginSucceeded(calls[1]) /\ Done(calls[1])
    /\ ToolsListSeen(calls[2]) /\ Done(calls[2])
    /\ calls[2].sent[1].tools = StdioTools

\* C8: a POSTed envelope without id gets neither a result nor an error.
C8_NotificationGetsNoResponse ==
    \A i \in Slots :
        LET c == calls[i] IN
        (Seen(c) /\ c.req.transport = "post" /\ c.req.hasBody /\ c.req.env.id = NoId)
            => \A k \in 1..Len(c.sent) : c.sent[k].kind \notin {"result", "error"}

\* a POST with method notifications/initialized
InitializedPost(c) ==
    /\ c.req.transport = "post" /\ c.req.hasBody
    /\ c.req.env.method = "notifications/initialized"

C9_Answer ==
    \A i \in Slots :
        LET c == calls[i] IN
        (Seen(c) /\ InitializedPost(c)) =>
            /\ Done(c)
            /\ c.sent = << [BaseResponse EXCEPT !.status = 204, !.kind = "empty"] >>
            /\ c.trace = << >> /\ c.sdk = NoSdk /\ ~c.unhandled

C9_Step ==
    \A i \in Slots :
        (~Seen(calls[i]) /\ Seen(calls'[i]) /\ InitializedPost(calls'[i])) =>
            /\ UNCHANGED <<variant, isAuthenticated, nextSdk, crashed>>
            /\ \A j \in Slots \ {i} : calls'[j] = calls[j]

\* C9: a POST with method notifications/initialized is answered 204 without
\* a body, makes no login and no remote operation, and changes nothing of
\* the server's state.
C9_InitializedIs204AndNoEffect == []C9_Answer /\ [][C9_Step]_vars

C9_Witness ==
    \E i \in Slots :
        /\ Done(calls[i]) /\ InitializedPost(calls[i])
        /\ calls[i].sent[1].status = 204
        /\ \E j \in Slots : calls[j].pc = "op"

\* C10: a POST whose method is none of the four known ones is answered 404
\* with JSON-RPC error -32601 and the request's id, with no login and no
\* remote operation.
C10_UnknownMethodIs404 ==
    \A i \in Slots :
        LET c == calls[i] IN
        (/\ Seen(c) /\ c.req.transport = "post" /\ c.req.hasBody
         /\ c.req.env.method \notin {"initialize", "notifications/initialized",
                                    "tools/list", "tools/call"})
        => /\ Done(c)
           /\ Len(c.sent) = 1
           /\ c.sent[1].status = 404
           /\ c.sent[1].kind = "error"
           /\ c.sent[1].code = -32601
           /\ c.sent[1].id = c.req.env.id
           /\ c.trace = << >> /\ c.sdk = NoSdk

C10_Witness ==
    \E i \in Slots :
        /\ Done(calls[i]) /\ calls[i].req.transport = "post"
        /\ calls[i].req.env.method = "bogus/method"
        /\ calls[i].req.env.id = i
        /\ calls[i].sent[1].status = 404 /\ calls[i].sent[1].id = i

\* a POST whose envelope has an id and whose method is answered with a body
IdentifiedPost(c) ==
    /\ Seen(c) /\ c.req.transport = "post" /\ c.req.hasBody
    /\ c.req.env.id # NoId
    /\ c.req.env.method # "notifications/initialized"

\* C11: the answer to a POSTed request with an id (initialize, tools/list,
\* tools/call ended well or badly, unknown method) carries that id; and
\* initialize is answered with protocolVersion "2024-11-05" in every state,
\* with or without params, with or without an earlier request.
C11_IdEchoedAndInitializeFixed ==
    \A i \in Slots :
        LET c == calls[i] IN
        /\ (IdentifiedPost(c) /\ Done(c)) =>
              (Len(c.sent) = 1 /\ c.sent[1].id = c.req.env.id)
        /\ (/\ Seen(c) /\ c.req.transport = "post" /\ c.req.hasBody
            /\ c.req.env.method = "initialize")
           => /\ Done(c) /\ Len(c.sent) = 1
              /\ c.sent[1].status = 200 /\ c.sent[1].kind = "result"
              /\ c.sent[1].pv = "2024-11-05"
              /\ c.trace = << >>

\* initialize with params, as the second request after a tool call that
\* failed, answered with the id and the version
C11_Witness ==
    /\ Done(calls[1]) /\ calls[1].req.transport = "post"
    /\ calls[1].req.env.method = "tools/call" /\ calls[1].err.kind = "remote"
    /\ calls[1].sent[1].id = 1
    /\ Done(calls[2]) /\ calls[2].req.transport = "post"
    /\ calls[2].req.env.method = "initialize" /\ calls[2].req.env.hasParams
    /\ calls[2].sent[1].id = 2 /\ calls[2].sent[1].pv = "2024-11-05"

\* the logins of c
Logins(c) == { k \in 1..Len(c.trace) : c.trace[k].op = "login" }

LoginFailed(c) == \E k \in Logins(c) : c.trace[k].st = "fail"

\* a call whose login failed made that one login and nothing else, and ended
\* with the error; the flag of the stdio program is set only by a success
C12_FailedCall ==
    /\ \A i \in Slots :
          LET c == calls[i] IN
          LoginFailed(c) =>
              /\ Cardinality(Logins(c)) = 1
              /\ Operations(c) = {}
              /\ Done(c)
              /\ c.err.kind = "auth"
              /\ Answerable(c) =>
                    /\ Len(c.sent) = 1
                    /\ c.sent[1].kind \in {"error", "thrown"}
                    /\ c.sent[1].err.kind = "auth"
    /\ (variant = "stdio" /\ isAuthenticated) =>
          \E i \in Slots : LoginSucceeded(calls[i])

\* the step in which a login fails leaves the flag as it was, and a tool call
\* arriving while the flag is false starts a login
C12_Step ==
    \A i \in Slots :
        /\ (~LoginFailed(calls[i]) /\ LoginFailed(calls'[i]))
              => isAuthenticated' = isAuthenticated
        /\ (/\ variant = "stdio" /\ ~isAuthenticated
            /\ ~Seen(calls[i]) /\ ToolCallSeen(calls'[i]))
           => /\ calls'[i].pc = "login"
              /\ Len(calls'[i].trace) = 1
              /\ calls'[i].trace[1].op = "login"

\* C12: a tool call whose credential exchange fails attempts it once, calls
\* no remote operation and ends with an error for the caller; in the stdio
\* program the flag stays false, and the next tool call logs in again.
C12_FailedLoginOnceNoOperation == []C12_FailedCall /\ [][C12_Step]_vars

\* stdio: the first call's login failed, the second call has started its own
C12_Witness ==
    /\ variant = "stdio"
    /\ ~isAuthenticated
    /\ Done(calls[1]) /\ LoginFailed(calls[1]) /\ calls[1].sent[1].kind = "thrown"
    /\ calls[2].pc = "login"

\* a POSTed tools/call of one of the two tools the HTTP program only pretends
\* to carry out
StubCall(c) ==
    /\ variant = "http" /\ ToolCallSeen(c) /\ c.req.transport = "post"
    /\ c.req.env.name \in {"create-folder", "invite-members-to-project"}

\* C14: in the HTTP program create-folder and invite-members-to-project
\* parse their arguments, reject a call lacking a required field with the
\* validation error, and on valid arguments answer one placeholder text
\* block, with no login and no remote operation either way.
C14_StubsValidateAndReturnPlaceholder ==
    \A i \in Slots :
        LET c == calls[i]
            issues == ZodIssues(HttpZodRequired(c.req.env.name), c.req.env.args)
                      \cup ZodTypeIssues(HttpZodTypes(c.req.env.name), c.req.env.args)
        IN  StubCall(c) =>
              /\ Done(c) /\ c.trace = << >> /\ c.sdk = NoSdk
              /\ Len(c.sent) = 1
              /\ IF issues = {}
                 THEN /\ c.sent[1].status = 200 /\ c.sent[1].kind = "result"
                      /\ Len(c.sent[1].content) = 1
                      /\ c.sent[1].content[1].type = "text"
                 ELSE /\ c.sent[1].kind = "error"
                      /\ c.sent[1].err.kind = "zod"
                      /\ c.sent[1].err.paths = issues

\* a create-folder call accepted and an invite call lacking emails rejected
C14_Witness ==
    /\ StubCall(calls[1]) /\ calls[1].req.env.name = "create-folder"
    /\ calls[1].req.env.args = ArgsOf({"projectId", "environmentSlug"})
    /\ calls[1].sent[1].kind = "result"
    /\ StubCall(calls[2]) /\ calls[2].req.env.name = "invite-members-to-project"
    /\ calls[2].req.env.args = ArgsOf({"projectId"})
    /\ calls[2].sent[1].err.paths = {"emails"}

\* the names the program dispatches on
Dispatch == IF variant = "http" THEN HttpDispatch ELSE AvailableTools

\* C18: a tools/call naming a tool outside the dispatch table of its program
\* ends with the unknown-tool error naming that tool and sends nothing to the
\* remote API, no login and no operation, whatever isAuthenticated is when
\* it arrives.
C18_UnknownToolRejectedWithoutRemote ==
    \A i \in Slots :
        LET c == calls[i] IN
        (ToolCallSeen(c) /\ Answerable(c) /\ c.req.env.name \notin Dispatch) =>
            /\ c.trace = << >>
            /\ Done(c)
            /\ c.err = UnknownToolErr(c.req.env.name)

\* a WebSocket text frame that JSON.parse rejects
GarbageFrame(c) == Seen(c) /\ c.req.transport = "ws" /\ c.req.frame = "garbage"

\* the frame is answered with one envelope of code -32700 and nothing else
\* happens for it
C20_Answer ==
    \A i \in Slots :
        LET c == calls[i] IN
        GarbageFrame(c) =>
            /\ Done(c)
            /\ Len(c.sent) = 1
            /\ c.sent[1].kind = "error" /\ c.sent[1].code = -32700
            /\ c.trace = << >> /\ c.sdk = NoSdk
            /\ ~c.unhandled

\* the step handling the frame leaves the process and the other requests as
\* they were, so that the next frame can arrive
C20_Step ==
    \A i \in Slots :
        (~Seen(calls[i]) /\ GarbageFrame(calls'[i])) =>
            /\ ~crashed'
            /\ \A j \in Slots \ {i} : calls'[j] = calls[j]
            /\ nextSdk' = nextSdk

\* C20: a WebSocket text frame that is no JSON is answered on its socket with
\* exactly one envelope of error code -32700; nothing is sent to the remote
\* API, the process and the socket go on, and later frames are handled.
C20_WsParseErrorAnswered == []C20_Answer /\ [][C20_Step]_vars

\* a malformed frame answered, and the frame after it answered as well
C20_Witness ==
    /\ GarbageFrame(calls[1]) /\ calls[1].sent[1].code = -32700
    /\ GarbageFrame(calls[2]) /\ calls[2].sent[1].code = -32700
    /\ ~crashed

\* the fields the tool catalog of the specification names as required
CatalogRequired(name) ==
    CASE name \in {"create-secret", "delete-secret", "update-secret", "get-secret"} ->
            {"projectId", "environmentSlug", "secretName"}
      [] name = "list-secrets" -> {"projectId", "environmentSlug"}
      [] name = "create-project" -> {"projectName"}
      [] name = "create-folder" ->
            {"projectId", "name",
             IF variant = "http" THEN "environmentSlug" ELSE "environment"}
      [] name = "invite-members-to-project" -> {"projectId"}
      [] OTHER -> {}

\* the arguments of c went through the parse of its tool: the call got as
\* far as a remote operation or a tool result
ValidationPassed(c) ==
    /\ ToolCallSeen(c) /\ Answerable(c)
    /\ \/ Operations(c) # {}
       \/ Len(c.sent) = 1 /\ c.sent[1].kind = "result" /\ c.sent[1].what = "content"

\* C17: validation of a tool call succeeds only if every field the catalog
\* names as required for the tool is present in the arguments.
C17_ValidOnlyWithCatalogRequired ==
    \A i \in Slots :
        LET c == calls[i] IN
        ValidationPassed(c) => CatalogRequired(c.req.env.name) \subseteq c.req.env.args.fields

ZodDefaults(name) ==
    IF variant = "http" THEN HttpZodDefaults(name) ELSE StdioZodDefaults(name)

\* argument object b is a with one more member: a field that has a default,
\* given as that default
AddsDefault(a, b, defaults) ==
    /\ a.present /\ b.present
    /\ \E f \in DOMAIN defaults :
          /\ f \notin a.fields
          /\ b.fields = a.fields \cup {f}
          /\ b.vals[f] = defaults[f]
          /\ \A g \in a.fields : b.vals[g] = a.vals[g]

\* c has been answered with a tool result
ToolResult(c) ==
    /\ Done(c) /\ Len(c.sent) = 1
    /\ c.sent[1].kind = "result" /\ c.sent[1].what = "content"

\* C15: two calls of one tool whose arguments differ only in that the second
\* gives a defaulted field (secretPath or path "/"; in the stdio program
\* also expandSecretReferences and includeImports true) as its default, call
\* the same remote operation with the same arguments, and return the same
\* content when the remote API answers both alike.
C15_OmittedEqualsExplicitDefault ==
    \A i, j \in Slots :
        LET a == calls[i]
            b == calls[j]
        IN  (/\ ToolCallSeen(a) /\ ToolCallSeen(b)
             /\ a.req.env.name = b.req.env.name
             /\ AddsDefault(a.req.env.args, b.req.env.args, ZodDefaults(a.req.env.name)))
            => /\ (Operations(a) # {} /\ Operations(b) # {}) =>
                     /\ LastCall(a).op = LastCall(b).op
                     /\ LastCall(a).args = LastCall(b).args
               /\ (/\ ToolResult(a) /\ ToolResult(b)
                   /\ OwnResult(a).keys = OwnResult(b).keys
                   /\ OwnResult(a).list = OwnResult(b).list)
                  => a.sent[1].content = b.sent[1].content

\* stdio list-secrets without includeImports and with includeImports: true,
\* both answered
C15_Witness ==
    /\ variant = "stdio"
    /\ calls[1].req.env.name = "list-secrets"
    /\ calls[1].req.env.args = ArgsOf({"projectId", "environmentSlug"})
    /\ calls[2].req.env.name = "list-secrets"
    /\ calls[2].req.env.args =
          ArgsWith({"projectId", "environmentSlug"}, [includeImports |-> Bool("true")])
    /\ ToolResult(calls[1]) /\ ToolResult(calls[2])
    /\ LastCall(calls[1]).args.includeImports = Bool("true")
    /\ calls[1].sent[1].content = calls[2].sent[1].content

\* C19: the text a successful list-secrets call returns shows of every secret
\* record its key and its value only, in both programs.
C19_ListSecretsKeyAndValueOnly ==
    \A i \in Slots :
        LET c == calls[i] IN
        (ToolCallSeen(c) /\ c.req.env.name = "list-secrets" /\ ToolResult(c)) =>
            c.sent[1].content[1].text.shown.keys \subseteq {"secretKey", "secretValue"}

AdvertisedTypes(name) ==
    IF variant = "http" THEN HttpAdvertisedTypes(name) ELSE StdioAdvertisedTypes(name)

AdvertisedRequired(name) ==
    IF variant = "http" THEN HttpAdvertisedRequired(name)
    ELSE StdioAdvertisedRequired(name)

\* value v is of the JSON Schema type atype
SchemaAccepts(atype, v) ==
    CASE atype = "array" -> v.t = "array"
      [] atype = "strings" -> v.t = "array" /\ v.v = "string"
      [] OTHER -> v.t = atype

\* args is an object with every advertised required field, whose members
\* are advertised properties of the advertised type
SatisfiesAdvertised(name, args) ==
    /\ args.present
    /\ AdvertisedRequired(name) \subseteq args.fields
    /\ \A f \in args.fields :
          /\ f \in DOMAIN AdvertisedTypes(name)
          /\ SchemaAccepts(AdvertisedTypes(name)[f], args.vals[f])

\* C16: for every tool of tools/list the advertised inputSchema and the
\* validator agree: a field whose absence the validator reports is an
\* advertised required one, no call lacking an advertised required field
\* passes validation, and arguments that satisfy the advertised types and
\* required list are never rejected by the validator.
C16_AdvertisedSchemaIsEnforcedSchema ==
    \A i \in Slots :
        LET c == calls[i]
            n == c.req.env.name
            a == c.req.env.args
        IN  (ToolCallSeen(c) /\ Answerable(c) /\ n \in Range(Catalog) /\ a.present) =>
              /\ c.err.kind = "zod" =>
                    (c.err.paths \ a.fields) \subseteq AdvertisedRequired(n)
              /\ ValidationPassed(c) => AdvertisedRequired(n) \subseteq a.fields
              /\ SatisfiesAdvertised(n, a) => c.err.kind # "zod"

\* what the parse of the tool of c reports for the arguments of c (the
\* list-projects case of the HTTP program parses nothing)
OwnIssues(c) ==
    LET n == c.req.env.name
        a == c.req.env.args
    IN  IF variant = "http"
        THEN IF n = "list-projects" THEN {}
             ELSE ZodIssues(HttpZodRequired(n), a) \cup ZodTypeIssues(HttpZodTypes(n), a)
        ELSE ZodIssues(StdioZodRequired(n), a) \cup ZodTypeIssues(StdioZodTypes(n), a)

\* the remote operation of the tool of c and the arguments c gives it
OwnOp(c) ==
    IF variant = "http" THEN HttpRemoteOp(c.req.env.name)
    ELSE StdioRemoteOp(c.req.env.name)

OwnArgs(c) ==
    IF variant = "http" THEN HttpRemoteArgs(c.req.env.name, HttpData(c))
    ELSE StdioRemoteArgs(c.req.env.name, StdioData(c))

\* C13: whatever the other requests in flight are and however the steps
\* interleave, a tools/call is validated against the schema of its own tool,
\* calls the remote operation of its own tool with its own arguments, once,
\* and returns what that operation resolved with.
C13_ConcurrentCallsDoNotInterfere ==
    \A i \in Slots :
        LET c == calls[i] IN
        ToolCallSeen(c) =>
            /\ c.err.kind = "zod" => (c.err.paths = OwnIssues(c) /\ OwnIssues(c) # {})
            /\ Operations(c) # {} => OwnIssues(c) = {}
            /\ Cardinality(Operations(c)) <= 1
            /\ \A k \in Operations(c) :
                  /\ c.trace[k].op = OwnOp(c)
                  /\ c.trace[k].args = OwnArgs(c)
                  /\ c.trace[k].st = "ok" =>
                        (c.trace[k].res.op = OwnOp(c) /\ c.trace[k].res.args = OwnArgs(c))
            /\ (/\ ToolResult(c) /\ Operations(c) # {}
                /\ c.sent[1].content[1].text.label # "Secret not found: ") =>
                  /\ c.sent[1].content[1].text.shown.op = OwnOp(c)
                  /\ c.sent[1].content[1].text.shown.args = OwnArgs(c)

\* the second call has come and been answered with its own result while the
\* operation of the first, of another tool, is still pending
C13_Witness ==
    /\ ToolCallSeen(calls[1]) /\ ToolCallSeen(calls[2])
    /\ calls[1].req.env.name # calls[2].req.env.name
    /\ calls[1].pc = "op"
    /\ ToolResult(calls[2]) /\ Operations(calls[2]) # {}
    /\ calls[2].req.env.name # "get-secret"
    /\ calls[2].sent[1].content[1].text.shown.op # LastCall(calls[1]).op

\* a GET /ready
ReadyRequest(c) == Seen(c) /\ c.req.transport = "get"

\* C21: in the HTTP program GET /ready reports the authentication flag
\* truthfully: false while no login has succeeded, true once the login of
\* some tools/call has.
C21_Step ==
    \A i \in Slots :
        (~Seen(calls[i]) /\ ReadyRequest(calls'[i])) =>
            /\ Len(calls'[i].sent) = 1
            /\ calls'[i].sent[1].kind = "result"
            /\ calls'[i].sent[1].authentication =
                  (IF \E j \in Slots : LoginSucceeded(calls[j]) THEN "true" ELSE "false")

C21_ReadyReportsAuthentication == [][C21_Step]_vars

\* a tools/call answered with a validation error
ValidationErrorSent(c) ==
    /\ ToolCallSeen(c) /\ Answerable(c) /\ Done(c)
    /\ Len(c.sent) = 1 /\ c.sent[1].err.kind = "zod"

\* the entries of the validation error sent for c that are about field f
EntriesOf(c, f) == { e \in c.sent[1].err.entries : e.field = f }

\* the elements of the array given for field f of c, when f is declared an
\* array of strings and given an array of something else
BadElements(c, f) ==
    LET n == c.req.env.name
        a == c.req.env.args
        ztype == IF variant = "http" THEN HttpZodTypes(n)[f] ELSE StdioZodTypes(n)[f]
    IN  IF /\ f \in a.fields /\ ztype = "strings"
           /\ a.vals[f].t = "array" /\ a.vals[f].v # "string"
        THEN a.vals[f].n
        ELSE 0

\* C22 as stated: the validation error has exactly one entry for every
\* violated field and none else, in one message, in both programs.
C22_OneEntryPerViolatedField ==
    \A i \in Slots :
        LET c == calls[i] IN
        ValidationErrorSent(c) =>
            /\ \A f \in OwnIssues(c) : Cardinality(EntriesOf(c, f)) = 1
            /\ \A e \in c.sent[1].err.entries : e.field \in OwnIssues(c)

\* C22: the validation error has one entry for every issue zod reports, all
\* in the one message sent: one for each required field that is absent or
\* member of the wrong type, and for an array with elements of the wrong
\* type one for each element, with the index in its path.
C22_OneEntryPerIssue ==
    \A i \in Slots :
        LET c == calls[i] IN
        ValidationErrorSent(c) =>
            /\ \A f \in OwnIssues(c) :
                  IF c.req.env.args.present /\ BadElements(c, f) > 0
                  THEN /\ Cardinality(EntriesOf(c, f)) = BadElements(c, f)
                       /\ { e.index : e \in EntriesOf(c, f) } = 0..(BadElements(c, f) - 1)
                  ELSE /\ Cardinality(EntriesOf(c, f)) = 1
                       /\ \A e \in EntriesOf(c, f) : e.index = NoIndex
            /\ \A e \in c.sent[1].err.entries : e.field \in OwnIssues(c)

\* stdio invite-members-to-project without projectId and with two e-mail
\* addresses that are numbers: three entries for two fields
C22_Witness ==
    /\ variant = "stdio"
    /\ ValidationErrorSent(calls[1])
    /\ calls[1].req.env.name = "invite-members-to-project"
    /\ calls[1].sent[1].err.paths = {"projectId", "emails"}
    /\ Cardinality(calls[1].sent[1].err.entries) = 3

\* a tools/call answered with a result and no error
Succeeded(c) ==
    /\ ToolCallSeen(c) /\ Answerable(c) /\ Done(c)
    /\ Len(c.sent) = 1 /\ c.sent[1].kind = "result" /\ c.err.kind = "none"

\* C23: every tools/call that succeeds, of every tool of either program,
\* returns a content that is a sequence of exactly one block, of type "text".
C23_SuccessIsOneTextBlock ==
    \A i \in Slots :
        LET c == calls[i] IN
        Succeeded(c) =>
            /\ c.sent[1].what = "content"
            /\ Len(c.sent[1].content) = 1
            /\ c.sent[1].content[1].type = "text"

\* the HTTP program has answered a call that went to the remote API and a
\* call of a tool that does not
C23_Witness ==
    /\ Succeeded(calls[1]) /\ calls[1].req.env.name = "create-secret"
    /\ Operations(calls[1]) # {}
    /\ Succeeded(calls[2]) /\ calls[2].req.env.name = "create-folder"
    /\ calls[2].sent[1].content[1].type = "text"

\* the flag is false before any request, and true only when a login has
\* succeeded
C24_TrueOnlyAfterLogin ==
    variant = "stdio" =>
        /\ (\A i \in Slots : ~Seen(calls[i])) => ~isAuthenticated
        /\ isAuthenticated => \E i \in Slots : LoginSucceeded(calls[i])

\* no step clears the flag, and the only step that sets it is the one in
\* which a pending login resolves
C24_Step ==
    variant = "stdio" =>
        /\ isAuthenticated => isAuthenticated'
        /\ (~isAuthenticated /\ isAuthenticated') =>
              \E i \in Slots :
                  /\ calls[i].pc = "login"
                  /\ ~LoginSucceeded(calls[i]) /\ LoginSucceeded(calls'[i])

\* C24: the stdio flag is monotonic: false at the start, set only when a
\* login completes successfully, never cleared by a tool call that succeeds
\* or fails or by tools/list, and true only if a login has succeeded before.
C24_FlagMonotonic == []C24_TrueOnlyAfterLogin /\ [][C24_Step]_vars

\* the flag is still set after a remote operation was rejected and a
\* tools/list was served
C24_Witness ==
    /\ variant = "stdio" /\ isAuthenticated
    /\ Done(calls[1]) /\ calls[1].err.kind = "remote"
    /\ Done(calls[2]) /\ ToolsListSeen(calls[2])

\* a request the dispatcher handleJsonRpcRequest has been given
Dispatched(c) ==
    /\ Seen(c)
    /\ \/ c.req.transport = "post"
       \/ c.req.transport = "ws" /\ c.req.frame = "json"

\* requests a and b are the same but for the id of the envelope
SameRequest(a, b) ==
    [a EXCEPT !.env = [@ EXCEPT !.id = NoId]] = [b EXCEPT !.env = [@ EXCEPT !.id = NoId]]

\* what the remote API answered during c: the outcome of each call made
RemoteAnswers(c) ==
    [k \in 1..Len(c.trace) |-> [op |-> c.trace[k].op, st |-> c.trace[k].st,
                                 keys |-> c.trace[k].res.keys,
                                 list |-> c.trace[k].res.list]]

\* what was sent for c, but for the id echoed
Answers(c) == [k \in 1..Len(c.sent) |-> [c.sent[k] EXCEPT !.id = NoId]]

\* a request with no request before it and the same request after another
\* one get the same answer when the remote API answers them alike
C25_SameAnswer ==
    variant = "http" =>
        \A i, j \in Slots :
            LET a == calls[i]
                b == calls[j]
            IN  (/\ Dispatched(a) /\ Dispatched(b) /\ Done(a) /\ Done(b)
                 /\ SameRequest(a.req, b.req)
                 /\ RemoteAnswers(a) = RemoteAnswers(b))
                => /\ Answers(a) = Answers(b)
                   /\ a.err = b.err

\* a step of one request changes nothing another request can see
C25_Step ==
    variant = "http" =>
        /\ isAuthenticated' = isAuthenticated
        /\ \A i \in Slots :
              calls'[i] # calls[i] => \A j \in Slots \ {i} : calls'[j] = calls[j]

C26_UpdatePassesEveryArgument ==
    \A i \in Slots :
        LET c == calls[i] IN
        (/\ variant = "stdio" /\ ToolCallSeen(c)
         /\ c.req.env.name = "update-secret" /\ Operations(c) # {})
        => \A f \in DOMAIN StdioData(c) :
              \E g \in DOMAIN LastCall(c).args : LastCall(c).args[g] = StdioData(c)[f]

\* the values of the members of the function or record d
Values(d) == { d[f] : f \in DOMAIN d }

\* what the parse of the tool of c returned
OwnData(c) == IF variant = "http" THEN HttpData(c) ELSE StdioData(c)

\* C27: no tool call invokes a remote operation twice; a remote operation
\* comes after the credential step (the logins of the call, all successful,
\* or the flag of the stdio program found set); and a call that succeeds
\* has invoked exactly one, that of its tool, with values of its validated
\* arguments -- but for the two tools the HTTP program only pretends to carry
\* out, which invoke none.
C27_ExactlyOneRemoteOperation ==
    \A i \in Slots :
        LET c == calls[i] IN
        ToolCallSeen(c) =>
            /\ Cardinality(Operations(c)) <= 1
            /\ \A k \in Operations(c) :
                  /\ k = Len(c.trace)
                  /\ \A l \in Logins(c) : l < k /\ c.trace[l].st = "ok"
                  /\ Logins(c) = {} => (variant = "stdio" /\ isAuthenticated)
                  /\ c.trace[k].op = OwnOp(c)
                  /\ Values(c.trace[k].args) \subseteq
                        Values(OwnData(c)) \cup {Undefined, Str("")}
            /\ Succeeded(c) =>
                  IF variant = "http"
                     /\ c.req.env.name \in {"create-folder", "invite-members-to-project"}
                  THEN c.trace = << >>
                  ELSE Cardinality(Operations(c)) = 1 /\ LastCall(c).st = "ok"

\* a call answered after its login and its one operation, and a call of a
\* tool without remote operation answered
C27_Witness ==
    /\ variant = "http"
    /\ Succeeded(calls[1]) /\ calls[1].req.env.name = "delete-secret"
    /\ Len(calls[1].trace) = 2 /\ calls[1].trace[2].op = "secrets.deleteSecret"
    /\ Succeeded(calls[2]) /\ calls[2].req.env.name = "invite-members-to-project"
    /\ calls[2].trace = << >>

\* a create-secret or update-secret call that has invoked its operation
SecretWrite(c) ==
    /\ ToolCallSeen(c)
    /\ c.req.env.name \in {"create-secret", "update-secret"}
    /\ Operations(c) # {}

\* C28: in both programs create-secret and update-secret called without
\* secretValue invoke their remote operation with secretValue "", and called
\* with one pass that one.
C28_AbsentSecretValueIsEmptyString ==
    \A i \in Slots :
        LET c == calls[i]
            a == c.req.env.args
        IN  SecretWrite(c) =>
              LastCall(c).args.secretValue =
                 (IF "secretValue" \in a.fields THEN a.vals["secretValue"]
                  ELSE [t |-> "string", v |-> "", n |-> 0])

\* update-secret without secretValue in one program, answered
C28_Witness ==
    /\ SecretWrite(calls[1]) /\ calls[1].req.env.name = "update-secret"
    /\ "secretValue" \notin calls[1].req.env.args.fields
    /\ LastCall(calls[1]).op = "secrets.updateSecret"
    /\ LastCall(calls[1]).args.secretValue.v = ""
    /\ Succeeded(calls[1])

\* an HTTP get-secret call whose remote call has resolved
GetSecretResolved(c) ==
    /\ variant = "http" /\ ToolCallSeen(c) /\ c.req.transport = "post"
    /\ c.req.env.name = "get-secret"
    /\ Operations(c) # {} /\ LastCall(c).st = "ok"

\* the positions in the listing answered to c of the records whose key is
\* the secretName asked for
Matches(c) ==
    { k \in 1..Len(LastCall(c).res.list) :
         LastCall(c).res.list[k].secretKey = c.req.env.args.vals["secretName"].v }

\* C29: HTTP get-secret makes one remote call, secrets.listSecrets, and
\* answers from the listing: the first record whose key is secretName if
\* there is one, and otherwise a normal result, no error, whose text says
\* that the secret was not found.
C29_GetSecretFromOneListing ==
    \A i \in Slots :
        LET c == calls[i] IN
        GetSecretResolved(c) =>
            /\ Cardinality(Operations(c)) = 1
            /\ LastCall(c).op = "secrets.listSecrets"
            /\ Done(c) /\ Len(c.sent) = 1
            /\ c.sent[1].kind = "result" /\ c.sent[1].status = 200
            /\ c.err.kind = "none"
            /\ Len(c.sent[1].content) = 1
            /\ LET text == c.sent[1].content[1].text IN
               IF Matches(c) # {}
               THEN /\ text.label = "Secret: "
                    /\ \E k \in Matches(c) :
                          /\ \A l \in Matches(c) : k <= l
                          /\ text.shown.list = << LastCall(c).res.list[k] >>
               ELSE /\ text.label = "Secret not found: "
                    /\ text.shown.secretName = c.req.env.args.vals["secretName"]

\* one get-secret answered with the first of two records of the key, another
\* answered that there is no such secret
C29_Witness ==
    /\ GetSecretResolved(calls[1]) /\ Cardinality(Matches(calls[1])) = 2
    /\ calls[1].sent[1].content[1].text.shown.list = << SecretRecord("secretName", "b") >>
    /\ GetSecretResolved(calls[2]) /\ Matches(calls[2]) = {}
    /\ calls[2].sent[1].kind = "result"
    /\ calls[2].sent[1].content[1].text.label = "Secret not found: "

====
